---- MODULE Spec2Model ----
(***************************************************************************)
(* Model of the HID transport core of oled_configurator.py:                *)
(* OLED_Configurator.connect_hid, get_protocol_version, read_with_timeout, *)
(* send_to_oled and cleanup.  One step of the model is one I/O step of the *)
(* handler that is running (an open, a write, a read with timeout); the    *)
(* handlers run on the single GUI thread, so a handler runs to its end     *)
(* before the next one starts.  The keyboard is the environment: it        *)
(* answers a written report at any later moment, or never.                 *)
(***************************************************************************)
EXTENDS Integers, Sequences, FiniteSets, TLC

(* ------------------------------ bounds --------------------------------- *)
\* number of handler invocations (connect / send / cleanup) in one session
MaxOps == 3
\* number of device paths hid.enumerate may return
MaxDevices == 3

\* number of pixels of the images handed to the packer
MaxPixels == 10

(* ------------------------- program constants --------------------------- *)
VIA_COMMAND_OLED == 64
chunk_size == 28
ReportLen == 32
CompletionMarker == 255
LeftCode == 1
RightCode == 2
\* pixels per packed byte: range(0, len(pixels), 8) and range(8)
PixelsPerByte == 8
\* bytes(command) accepts only values below this
ByteLimit == 256
\* len(response) >= 3 in get_protocol_version
MinVersionLen == 3
\* index of the version byte in the response
VersionIdx == 2

(* ------------------------------ inputs --------------------------------- *)
\* lengths of the packed bitmap (len(bytes_data)) handed to send_to_oled:
\* empty, one chunk, chunk boundaries and the 128x32 panel (512)
Lengths == {0, 1, 28, 29, 57, 512}
\* the same with the lengths around the one-byte chunk index: 255, 256 and
\* 257 chunks
LongLengths == Lengths \cup {7140, 7141, 7169}
Sides == {"left", "right"}
\* what the keyboard may answer: length of the report and its byte 2
RespLens == {2, 3}
RespBytes == {0, 12}
\* values of the pixels of a mode "1" image, as getdata() gives them
PixelValues == {0, 255}

None == 0

Min(a, b) == IF a < b THEN a ELSE b

VARIABLES
    device,        \* self.device: None or the handle held
    closes,        \* closes[h]: how many times handle h was closed
    pc,            \* position of the running handler, "idle" between handlers
    budget,        \* handler invocations left in this session
    images,        \* packed lengths of the images the user can send
    ndevices,      \* len(devices) of the running connect_hid
    cand,          \* index of device_info in devices (1-based)
    probes,        \* connect_hid: what was done on each candidate so far
    len_bytes,     \* len(bytes_data) of the running send_to_oled
    oled_side,     \* its oled_side argument
    chunk_index,   \* its loop variable
    command,       \* the last report handed to device.write
    writes,        \* send_to_oled: the reports handed to device.write
    acks,          \* send_to_oled: the responses accepted as acknowledgment
    result,        \* outcome of the last handler
    pending,       \* reports the keyboard has received and not answered
    inbuf,         \* responses waiting in the handle's input queue
    read_error,    \* the last read_with_timeout met an exception on every poll
    pixels,        \* list(image_data.getdata()) of the image being packed
    bytes_data     \* the packed bytes built from it so far

vars == <<device, closes, pc, budget, images, ndevices, cand, probes, len_bytes,
          oled_side, chunk_index, command, writes, acks, result, pending,
          inbuf, read_error, pixels, bytes_data>>

connVars == <<ndevices, cand, probes>>
sendVars == <<len_bytes, oled_side, chunk_index, command, writes, acks>>
handleVars == <<device, closes>>
wireVars == <<pending, inbuf>>
packVars == <<pixels, bytes_data>>

(* --------------------------- pure helpers ------------------------------ *)
NoResponse == [len |-> 0, b2 |-> -1, fresh |-> FALSE]
NoVersion == -1
NoIndex == -1
NoCommand == <<>>

\* variant: one chunk more than the bytes that fit whole chunks
TotalChunksPlus(n) == n \div chunk_size + 1

\* variant: the chunk count rounded down
TotalChunksFloor(n) == n \div chunk_size

\* total_chunks = (len(bytes_data) + chunk_size - 1) // chunk_size
TotalChunks(n) == (n + chunk_size - 1) \div chunk_size

\* variant: consecutive chunks overlap by one byte
StartIdxOverlap(i) == i * (chunk_size - 1)

\* start_idx = chunk_index * chunk_size
StartIdx(i) == i * chunk_size

\* end_idx = min(start_idx + chunk_size, len(bytes_data))
EndIdx(i, n) == Min(StartIdx(i) + chunk_size, n)

\* bytes_data[k]: the packed bitmap is a fixed test pattern of the given length
ByteAt(k) == (37 * k + 11) % ByteLimit

\* chunk = bytes_data[start_idx:end_idx]
Chunk(i, n) == [j \in 1..(EndIdx(i, n) - StartIdx(i)) |-> ByteAt(StartIdx(i) + j - 1)]

\* 0x01 if oled_side == "left" else 0x02
PanelCode(side) == IF side = "left" THEN LeftCode ELSE RightCode

\* while len(command) < 32: command.append(0)
Pad(s) == s \o [j \in 1..(ReportLen - Len(s)) |-> 0]

\* variant: chunk indices counted from one
IndexFieldOneBased(i) == i + 1

\* the fourth element of the data-chunk command
IndexField(i) == i

\* the fourth element of the completion command
CompletionField == CompletionMarker

ChunkCommand(side, i, n) ==
    Pad(<<0, VIA_COMMAND_OLED, PanelCode(side), IndexField(i)>> \o Chunk(i, n))

CompletionCommand(side) ==
    <<0, VIA_COMMAND_OLED, PanelCode(side), CompletionField>>
        \o [j \in 1..chunk_size |-> 0]

\* bytes(command) raises ValueError unless every element is in range(256)
BytesOk(cmd) == \A j \in DOMAIN cmd : cmd[j] >= 0 /\ cmd[j] < ByteLimit

\* variant: the response is not looked at
TruthyAny(response) == TRUE

\* variant: a response counts only when it is long enough to hold a version
TruthyVersioned(response) == response.len >= MinVersionLen

\* "if not response" / "if response": bytes are truthy when non-empty
Truthy(response) == response.len > 0

\* variant: "if version:" inside get_protocol_version, dropping version 0
VersionOfNonZero(response) ==
    IF response.len >= MinVersionLen /\ response.b2 > 0
    THEN response.b2 ELSE NoVersion

\* get_protocol_version, after the read: response[2] when len(response) >= 3
VersionOf(response) ==
    IF Truthy(response) /\ response.len >= MinVersionLen
    THEN response.b2 ELSE NoVersion

\* variant: "if version:", which takes version 0 for a failure
HandshakeTruthy(version) == version > 0

\* connect_hid: "if version is not None"
HandshakeOk(version) == version # NoVersion

\* the reports the keyboard can send back
Responses ==
    {[len |-> l, b2 |-> (IF l > VersionIdx THEN b ELSE -1), fresh |-> TRUE] :
        l \in RespLens, b \in RespBytes}

Res(op, kind, idx) == [op |-> op, kind |-> kind, idx |-> idx]
NoResult == Res("none", "none", NoIndex)

Stale(q) == [j \in DOMAIN q |-> [q[j] EXCEPT !.fresh = FALSE]]

(* ------------------------------ Init ----------------------------------- *)
Init ==
    /\ device = None
    /\ closes = <<>>
    /\ pc = "idle"
    /\ budget = MaxOps
    /\ images = Lengths
    /\ ndevices = 0
    /\ cand = 0
    /\ probes = <<>>
    /\ len_bytes = 0
    /\ oled_side = "left"
    /\ chunk_index = 0
    /\ command = NoCommand
    /\ writes = <<>>
    /\ acks = <<>>
    /\ result = NoResult
    /\ pending = <<>>
    /\ inbuf = <<>>
    /\ read_error = FALSE
    /\ pixels = <<>>
    /\ bytes_data = <<>>

(* ------------------------- shared sub-steps ---------------------------- *)
\* variant: an exception of self.device.read leaves read_with_timeout
PropagatesRead(raises) == raises

\* "except Exception as e: debug_print(...)" in the poll loop: an exception
\* of self.device.read never leaves read_with_timeout
Propagates(raises) == FALSE

\* one call of read_with_timeout on an input queue; raises: self.device.read
\* raises on every poll.  response is what the call returns, raised whether
\* it ends with an exception instead.
ReadOutcome(buf, raises) ==
    IF raises \/ buf = <<>>
    THEN [response |-> NoResponse, rest |-> buf,
          raised |-> Propagates(raises), failed |-> raises]
    ELSE [response |-> Head(buf), rest |-> Tail(buf),
          raised |-> FALSE, failed |-> FALSE]

\* read_with_timeout: the first report of the input queue, or None when the
\* timeout elapses with nothing read (nothing arrived, or every poll raised)
ReadWithTimeout(buf) == {ReadOutcome(buf, e) : e \in BOOLEAN}

\* self.device.write(...) succeeded: the keyboard now owes a reply to this
\* report, and everything queued earlier is a reply to an earlier report
Written ==
    /\ pending' = Append(Stale(pending), [fresh |-> TRUE])
    /\ inbuf' = Stale(inbuf)

\* variant: the handle is dropped without being closed
ForgetOnly ==
    /\ closes' = closes
    /\ device' = None
    /\ pending' = <<>>
    /\ inbuf' = <<>>

\* self.device.close(); self.device = None
CloseAndForget ==
    /\ closes' = [closes EXCEPT ![device] = @ + 1]
    /\ device' = None
    /\ pending' = <<>>
    /\ inbuf' = <<>>

\* "if not self.device:" after the for loop of connect_hid
LoopEnd(dev) ==
    IF dev = None THEN Res("connect", "NotFound", NoIndex)
    ELSE Res("connect", "Unchanged", NoIndex)

\* "continue" / end of the loop body: next device_info, or leave the loop
NextCandidate ==
    IF cand < ndevices
    THEN /\ cand' = cand + 1
         /\ pc' = "open"
         /\ result' = result
    ELSE /\ cand' = cand
         /\ pc' = "done"
         /\ result' = LoopEnd(device')

SetLast(q, field, v) == [q EXCEPT ![Len(q)] = [@ EXCEPT ![field] = v]]

(* ----------------------------- connect_hid ----------------------------- *)
\* hid.enumerate raised: the outer except clause
ConnectEnumerateFails ==
    /\ pc = "idle" /\ budget > 0
    /\ budget' = budget - 1
    /\ images' = images
    /\ IF device # None
       THEN CloseAndForget
       ELSE UNCHANGED <<handleVars, wireVars>>
    /\ result' = Res("connect", "ConnectionFailed", NoIndex)
    /\ pc' = "done"
    /\ UNCHANGED <<connVars, sendVars>>
    /\ UNCHANGED packVars
    /\ UNCHANGED read_error

\* devices = list(hid.enumerate(...)), n of them
ConnectStart(n) ==
    /\ pc = "idle" /\ budget > 0
    /\ budget' = budget - 1
    /\ images' = images
    /\ ndevices' = n
    /\ probes' = <<>>
    /\ IF n > 0
       THEN /\ cand' = 1
            /\ pc' = "open"
            /\ result' = NoResult
       ELSE /\ cand' = 0
            /\ pc' = "done"
            /\ result' = LoopEnd(device)
    /\ UNCHANGED <<handleVars, wireVars, sendVars>>
    /\ UNCHANGED packVars
    /\ UNCHANGED read_error

\* self.device = hid.Device(path=device_info['path'])
OpenCandidate(ok) ==
    /\ pc = "open"
    /\ IF ok
       THEN /\ closes' = Append(closes, 0)
            /\ device' = Len(closes) + 1
            /\ pending' = <<>>
            /\ inbuf' = <<>>
            /\ probes' = Append(probes,
                 [cand |-> cand, handle |-> Len(closes) + 1, answered |-> FALSE,
                  wrote |-> FALSE, rlen |-> 0, rb2 |-> -1,
                  version |-> NoVersion])
            /\ pc' = "vwrite"
            /\ UNCHANGED <<cand, result>>
       ELSE /\ IF device # None
               THEN CloseAndForget
               ELSE UNCHANGED <<handleVars, wireVars>>
            /\ probes' = Append(probes,
                 [cand |-> cand, handle |-> None, answered |-> FALSE,
                  wrote |-> FALSE, rlen |-> 0, rb2 |-> -1,
                  version |-> NoVersion])
            /\ NextCandidate
    /\ UNCHANGED <<budget, images, ndevices, sendVars>>
    /\ UNCHANGED packVars
    /\ UNCHANGED read_error

\* get_protocol_version: self.device.write(bytes(command))
VersionWrite(ok) ==
    /\ pc = "vwrite"
    /\ IF ok
       THEN /\ Written
            /\ pc' = "vread"
            /\ probes' = SetLast(probes, "wrote", TRUE)
            /\ UNCHANGED <<handleVars, cand, result>>
       ELSE /\ CloseAndForget
            /\ NextCandidate
            /\ probes' = probes
    /\ UNCHANGED <<budget, images, ndevices, sendVars>>
    /\ UNCHANGED packVars
    /\ UNCHANGED read_error

\* get_protocol_version from the read on: "except Exception: return None"
VersionResult(r) == IF r.raised THEN NoVersion ELSE VersionOf(r.response)

\* get_protocol_version: response = self.read_with_timeout(), and the rest
\* of the loop body of connect_hid
VersionRead ==
    /\ pc = "vread"
    /\ \E r \in ReadWithTimeout(inbuf) :
         /\ probes' = [probes EXCEPT ![Len(probes)] =
                 [@ EXCEPT !.answered = r.response.len >= MinVersionLen,
                           !.rlen = r.response.len,
                           !.rb2 = r.response.b2,
                           !.version = VersionResult(r)]]
         /\ read_error' = r.failed
         /\ IF HandshakeOk(VersionResult(r))
            THEN /\ inbuf' = r.rest
                 /\ result' = Res("connect", "Connected", VersionResult(r))
                 /\ pc' = "done"
                 /\ UNCHANGED <<handleVars, pending, cand>>
            ELSE /\ CloseAndForget
                 /\ NextCandidate
    /\ UNCHANGED <<budget, images, ndevices, sendVars>>
    /\ UNCHANGED packVars

(* ----------------------------- send_to_oled ---------------------------- *)
\* variants: the loop stops one chunk early / runs one chunk too far
MoreChunksShort(i, n) == i + 1 < (n + chunk_size - 1) \div chunk_size

MoreChunksLong(i, n) == i <= (n + chunk_size - 1) \div chunk_size

\* for chunk_index in range(total_chunks): is there another iteration?
MoreChunks(i, n) == i < TotalChunks(n)

\* entry of send_to_oled with an image of n packed bytes
SendStart(n, side) ==
    /\ pc = "idle" /\ budget > 0
    /\ budget' = budget - 1
    /\ images' = images
    /\ IF device = None
       THEN /\ result' = Res("send", "NotConnected", NoIndex)
            /\ pc' = "done"
            /\ UNCHANGED sendVars
       ELSE /\ len_bytes' = n
            /\ oled_side' = side
            /\ chunk_index' = 0
            /\ command' = NoCommand
            /\ writes' = <<>>
            /\ acks' = <<>>
            /\ result' = NoResult
            /\ pc' = IF MoreChunks(0, n) THEN "write" ELSE "wcomp"
    /\ UNCHANGED <<handleVars, wireVars, connVars>>
    /\ UNCHANGED packVars
    /\ read_error' = FALSE

\* the generic "except Exception" clause
SendFailed == Res("send", "SendFailed", NoIndex)

\* variant: the index of the chunk after the unacknowledged one
ChunkTimeoutNext(i) == Res("send", "ChunkNotAcknowledged", i + 1)

\* raise TimeoutError(f"Device did not acknowledge chunk {chunk_index}")
ChunkTimeout(i) == Res("send", "ChunkNotAcknowledged", i)

\* raise TimeoutError("Device did not acknowledge completion")
CompletionTimeout == Res("send", "CompletionNotAcknowledged", NoIndex)

\* loop body up to self.device.write(bytes(command))
WriteChunk(ok) ==
    /\ pc = "write"
    /\ LET cmd == ChunkCommand(oled_side, chunk_index, len_bytes) IN
       IF ~BytesOk(cmd)
       THEN /\ ok
            /\ result' = SendFailed
            /\ pc' = "done"
            /\ UNCHANGED <<command, writes, wireVars>>
       ELSE /\ command' = cmd
            /\ writes' = Append(writes,
                 [kind |-> "chunk", idx |-> cmd[4], panel |-> cmd[3],
                  len |-> Len(Chunk(chunk_index, len_bytes)), ok |-> ok])
            /\ IF ok
               THEN /\ Written
                    /\ pc' = "read"
                    /\ result' = result
               ELSE /\ result' = SendFailed
                    /\ pc' = "done"
                    /\ UNCHANGED wireVars
    /\ UNCHANGED <<handleVars, connVars, budget, images, len_bytes, oled_side,
                   chunk_index, acks>>
    /\ UNCHANGED packVars
    /\ UNCHANGED read_error

\* "if not response: raise TimeoutError(...)" and the end of the loop body,
\* for iteration i of a bitmap of n bytes
AckOutcome(response, i, n) ==
    IF ~Truthy(response)
    THEN [pc |-> "done", result |-> ChunkTimeout(i), chunk_index |-> i]
    ELSE [pc |-> IF MoreChunks(i + 1, n) THEN "write" ELSE "wcomp",
          result |-> NoResult, chunk_index |-> i + 1]

\* "if not response: raise TimeoutError(...)" after the completion report,
\* and "return True"
CompletionOutcome(response) ==
    IF ~Truthy(response) THEN CompletionTimeout
    ELSE Res("send", "Success", NoIndex)

\* response = self.read_with_timeout(timeout=0.5) and the end of the loop body
ReadAck ==
    /\ pc = "read"
    /\ \E r \in ReadWithTimeout(inbuf) :
         /\ inbuf' = r.rest
         /\ read_error' = r.failed
         /\ IF r.raised
            THEN /\ result' = SendFailed
                 /\ pc' = "done"
                 /\ UNCHANGED <<acks, chunk_index>>
            ELSE LET o == AckOutcome(r.response, chunk_index, len_bytes) IN
                 /\ result' = o.result
                 /\ pc' = o.pc
                 /\ chunk_index' = o.chunk_index
                 /\ acks' = IF o.pc = "done" THEN acks
                            ELSE Append(acks,
                                   [kind |-> "chunk", idx |-> chunk_index,
                                    got |-> r.response.len > 0,
                                    fresh |-> r.response.fresh])
    /\ UNCHANGED <<handleVars, connVars, budget, images, len_bytes, oled_side,
                   command, writes, pending>>
    /\ UNCHANGED packVars

\* self.device.write(bytes(completion_command))
WriteCompletion(ok) ==
    /\ pc = "wcomp"
    /\ LET cmd == CompletionCommand(oled_side) IN
       /\ command' = cmd
       /\ writes' = Append(writes,
            [kind |-> "completion", idx |-> cmd[4], panel |-> cmd[3],
             len |-> 0, ok |-> ok])
    /\ IF ok
       THEN /\ Written
            /\ pc' = "rcomp"
            /\ result' = result
       ELSE /\ result' = SendFailed
            /\ pc' = "done"
            /\ UNCHANGED wireVars
    /\ UNCHANGED <<handleVars, connVars, budget, images, len_bytes, oled_side,
                   chunk_index, acks>>
    /\ UNCHANGED packVars
    /\ UNCHANGED read_error

\* the final read_with_timeout(timeout=0.5) and "return True"
ReadCompletionAck ==
    /\ pc = "rcomp"
    /\ \E r \in ReadWithTimeout(inbuf) :
         /\ inbuf' = r.rest
         /\ read_error' = r.failed
         /\ IF r.raised
            THEN /\ result' = SendFailed
                 /\ acks' = acks
            ELSE /\ result' = CompletionOutcome(r.response)
                 /\ acks' = IF CompletionOutcome(r.response) = CompletionTimeout
                            THEN acks
                            ELSE Append(acks,
                                   [kind |-> "completion", idx |-> NoIndex,
                                    got |-> r.response.len > 0,
                                    fresh |-> r.response.fresh])
    /\ pc' = "done"
    /\ UNCHANGED <<handleVars, connVars, budget, images, len_bytes, oled_side,
                   chunk_index, command, writes, pending>>
    /\ UNCHANGED packVars

(* ------------------------ return, cleanup, keyboard -------------------- *)
\* the handler returns to the event loop: its locals are gone
Return ==
    /\ pc = "done"
    /\ pc' = "idle"
    /\ ndevices' = 0 /\ cand' = 0 /\ probes' = <<>>
    /\ len_bytes' = 0 /\ oled_side' = "left" /\ chunk_index' = 0
    /\ command' = NoCommand /\ writes' = <<>> /\ acks' = <<>>
    /\ result' = NoResult
    /\ UNCHANGED <<handleVars, wireVars, budget, images>>
    /\ UNCHANGED packVars
    /\ read_error' = FALSE

\* cleanup, called by on_closing before root.destroy()
Cleanup ==
    /\ pc = "idle" /\ budget > 0
    /\ budget' = budget - 1
    /\ images' = images
    /\ IF device # None
       THEN closes' = [closes EXCEPT ![device] = @ + 1]
       ELSE closes' = closes
    /\ pc' = "exited"
    /\ result' = Res("cleanup", "Exited", NoIndex)
    /\ UNCHANGED <<device, wireVars, connVars, sendVars>>
    /\ UNCHANGED packVars
    /\ UNCHANGED read_error

\* the keyboard answers the oldest report it has not answered yet
DeviceRespond ==
    /\ pc # "exited"
    /\ pending # <<>>
    /\ \E r \in Responses :
         inbuf' = Append(inbuf, [r EXCEPT !.fresh = Head(pending).fresh])
    /\ pending' = Tail(pending)
    /\ UNCHANGED <<handleVars, connVars, sendVars, pc, budget, images, result>>
    /\ UNCHANGED packVars
    /\ UNCHANGED read_error

Next ==
    \/ ConnectEnumerateFails
    \/ \E n \in 0..MaxDevices : ConnectStart(n)
    \/ \E ok \in BOOLEAN : OpenCandidate(ok)
    \/ \E ok \in BOOLEAN : VersionWrite(ok)
    \/ VersionRead
    \/ \E n \in images : \E side \in Sides : SendStart(n, side)
    \/ \E ok \in BOOLEAN : WriteChunk(ok)
    \/ ReadAck
    \/ \E ok \in BOOLEAN : WriteCompletion(ok)
    \/ ReadCompletionAck
    \/ Return
    \/ Cleanup
    \/ DeviceRespond

Spec == Init /\ [][Next]_vars

\* one handler invocation on a keyboard that connect_hid has connected, with
\* images of every length in LongLengths
InitConnected ==
    /\ device = 1
    /\ closes = <<0>>
    /\ pc = "idle"
    /\ budget = 1
    /\ images = LongLengths
    /\ ndevices = 0
    /\ cand = 0
    /\ probes = <<>>
    /\ len_bytes = 0
    /\ oled_side = "left"
    /\ chunk_index = 0
    /\ command = NoCommand
    /\ writes = <<>>
    /\ acks = <<>>
    /\ result = NoResult
    /\ pending = <<>>
    /\ inbuf = <<>>
    /\ read_error = FALSE
    /\ pixels = <<>>
    /\ bytes_data = <<>>

SpecTransfer == InitConnected /\ [][Next]_vars

\* a statement of send_to_oled that is being executed: a write returns or
\* raises, and read_with_timeout returns when its timeout has elapsed
TransferStep ==
    \/ \E ok \in BOOLEAN : WriteChunk(ok)
    \/ ReadAck
    \/ \E ok \in BOOLEAN : WriteCompletion(ok)
    \/ ReadCompletionAck

\* a transfer whose statements each come to an end
FairTransfer == SpecTransfer /\ WF_vars(TransferStep)

(* ------------------------------ the packer ----------------------------- *)
RECURSIVE Pow2(_)
Pow2(k) == IF k = 0 THEN 1 ELSE 2 * Pow2(k - 1)

\* variant: the first pixel in the least significant bit
ShiftOfLsbFirst(bit) == bit

\* the shift of "<< (7 - bit)"
ShiftOf(bit) == (PixelsPerByte - 1) - bit

\* (pixels[i + bit] > 0) << (7 - bit), 0 when i + bit is past the end;
\* i is 0-based as in the code
PixelBit(px, i, bit) ==
    IF i + bit < Len(px) /\ px[i + bit + 1] > 0
    THEN Pow2(ShiftOf(bit)) ELSE 0

RECURSIVE PackByteFrom(_, _, _)
\* the inner loop: byte |= ... for bit in range(8); the bits are distinct,
\* so the bitwise or is their sum
PackByteFrom(px, i, bit) ==
    IF bit >= PixelsPerByte THEN 0
    ELSE PixelBit(px, i, bit) + PackByteFrom(px, i, bit + 1)

PackByte(px, i) == PackByteFrom(px, i, 0)

\* one iteration of "for i in range(0, len(pixels), 8)"
PackStep ==
    /\ pc = "pack"
    /\ PixelsPerByte * Len(bytes_data) < Len(pixels)
    /\ bytes_data' =
           Append(bytes_data, PackByte(pixels, PixelsPerByte * Len(bytes_data)))
    /\ UNCHANGED <<handleVars, wireVars, connVars, sendVars, pc, budget,
                   images, result, read_error, pixels>>

\* the loop is over: bytes_data is complete
PackEnd ==
    /\ pc = "pack"
    /\ PixelsPerByte * Len(bytes_data) >= Len(pixels)
    /\ pc' = "packed"
    /\ UNCHANGED <<handleVars, wireVars, connVars, sendVars, budget,
                   images, result, read_error, packVars>>

\* send_to_oled entered with an image of at most MaxPixels pixels
InitPack ==
    /\ device = 1
    /\ closes = <<0>>
    /\ pc = "pack"
    /\ budget = 0
    /\ images = {}
    /\ ndevices = 0
    /\ cand = 0
    /\ probes = <<>>
    /\ len_bytes = 0
    /\ oled_side = "left"
    /\ chunk_index = 0
    /\ command = NoCommand
    /\ writes = <<>>
    /\ acks = <<>>
    /\ result = NoResult
    /\ pending = <<>>
    /\ inbuf = <<>>
    /\ read_error = FALSE
    /\ pixels \in UNION {[1..n -> PixelValues] : n \in 0..MaxPixels}
    /\ bytes_data = <<>>

NextPack ==
    \/ PackStep
    \/ PackEnd

SpecPack == InitPack /\ [][NextPack]_vars

(* ======================= properties of the transfer ==================== *)
\* a send_to_oled call that got past the "not connected" check is running
\* or has just finished
InSend ==
    \/ pc \in {"write", "read", "wcomp", "rcomp"}
    \/ pc = "done" /\ result.op = "send" /\ result.kind # "NotConnected"

SendDone == pc = "done" /\ result.op = "send" /\ result.kind # "NotConnected"

\* N = ceil(L / 28), the chunk count of the specification
CeilChunks(L) == (L + 27) \div 28

OkWrites == {j \in DOMAIN writes : writes[j].ok}
ChunkWrites == {j \in DOMAIN writes : writes[j].kind = "chunk"}
CompletionWrites == {j \in DOMAIN writes : writes[j].kind = "completion"}

\* C1: a bitmap of more than 255 chunks is refused with BitmapTooLarge
\* before anything is written to or read from the device.
C1_TooLargeNoIO ==
    (InSend /\ CeilChunks(len_bytes) > 255) =>
        /\ writes = <<>>
        /\ acks = <<>>
        /\ pc \in {"write", "done"}
        /\ (pc = "done" => result.kind = "BitmapTooLarge")

\* C2: writes and acknowledgment reads strictly alternate: a report is
\* written only when every report written before it in this transfer was
\* written successfully and answered by a non-empty response that has been
\* read; at most one report is unacknowledged at any moment.
C2_Alternation ==
    InSend =>
        /\ Len(writes) - Len(acks) \in {0, 1}
        /\ \A j \in DOMAIN acks :
             /\ writes[j].ok
             /\ acks[j].got
             /\ acks[j].kind = writes[j].kind
             /\ (acks[j].kind = "chunk" => acks[j].idx = writes[j].idx)
        /\ (pc \in {"write", "wcomp"} => Len(writes) = Len(acks))
        /\ (pc \in {"read", "rcomp"} =>
               Len(writes) = Len(acks) + 1 /\ writes[Len(writes)].ok)

C2_Witness ==
    /\ pc = "wcomp"
    /\ len_bytes = 57
    /\ Len(writes) = 3 /\ Len(acks) = 3

\* C3: when every write succeeded, chunks 0..i-1 were acknowledged and the
\* read after chunk i timed out, the outcome is ChunkNotAcknowledged(i),
\* exactly i+1 reports were written, they are the chunks 0..i in order (no
\* chunk twice, none beyond i), and no completion report was written.
C3_FailFast ==
    (SendDone /\ OkWrites = DOMAIN writes /\ Len(writes) = Len(acks) + 1
        /\ writes[Len(writes)].kind = "chunk") =>
        LET i == Len(acks) IN
        /\ result = Res("send", "ChunkNotAcknowledged", i)
        /\ Len(writes) = i + 1
        /\ \A j \in DOMAIN writes :
             writes[j].kind = "chunk" /\ writes[j].idx = j - 1
        /\ \A j \in DOMAIN acks : acks[j].idx = j - 1

C3_Witness ==
    /\ SendDone
    /\ result = Res("send", "ChunkNotAcknowledged", 2)
    /\ Len(writes) = 3
    /\ OkWrites = DOMAIN writes
    /\ pending # <<>>

\* every one of the N data chunks and the completion report was written
\* and answered by a non-empty response
AllAcknowledged ==
    LET N == CeilChunks(len_bytes) IN
    /\ Len(acks) = N + 1
    /\ Len(writes) = N + 1
    /\ \A j \in 1..N :
         /\ writes[j].kind = "chunk" /\ writes[j].ok /\ writes[j].idx = j - 1
         /\ acks[j].kind = "chunk" /\ acks[j].idx = j - 1 /\ acks[j].got
    /\ writes[N + 1].kind = "completion" /\ writes[N + 1].ok
    /\ acks[N + 1].kind = "completion" /\ acks[N + 1].got

\* C4: the transfer returns success exactly when all N data chunks and the
\* completion report were acknowledged; with all chunks acknowledged and
\* the completion report written but unanswered it fails with
\* CompletionNotAcknowledged.
C4_SuccessIff ==
    SendDone =>
        /\ (result.kind = "Success" <=> AllAcknowledged)
        /\ (( /\ Len(acks) = CeilChunks(len_bytes)
              /\ Len(writes) = Len(acks) + 1
              /\ writes[Len(writes)].kind = "completion"
              /\ writes[Len(writes)].ok )
             => result.kind = "CompletionNotAcknowledged")

C4_Witness ==
    /\ SendDone
    /\ result.kind = "CompletionNotAcknowledged"
    /\ len_bytes = 512
    /\ Len(acks) = 19

(* ======================= properties of discovery ======================= *)
InConnect ==
    \/ pc \in {"open", "vwrite", "vread"}
    \/ pc = "done" /\ result.op = "connect"

ConnectDone == pc = "done" /\ result.op = "connect"

\* C5: the candidate that answers version negotiation is the last one
\* touched and its handle is the one kept: once the k-th candidate has
\* answered, connect_hid has returned with exactly that handle, open, as
\* self.device, and no candidate after it is opened or queried.
C5_FirstSuccessWins ==
    InConnect =>
        /\ Len(probes) <= cand
        /\ \A j \in DOMAIN probes : probes[j].cand = j
        /\ \A j \in DOMAIN probes :
             probes[j].answered =>
                 /\ j = Len(probes)
                 /\ pc = "done"
                 /\ result.kind = "Connected"
                 /\ device = probes[j].handle
                 /\ device # None
                 /\ closes[device] = 0
        /\ (ConnectDone /\ result.kind = "Connected") =>
               probes # <<>> /\ probes[Len(probes)].answered

\* the second of three candidates is the one that answered
C5_Witness ==
    /\ ConnectDone
    /\ result.kind = "Connected"
    /\ ndevices > 2
    /\ Len(probes) = 2
    /\ probes[2].answered
    /\ probes[1].handle # None

(* ================== properties of the reports written ================== *)
\* C6: for a bitmap of at most 255 chunks no data-chunk report carries 0xFF
\* in its chunk-index byte (offset 3) and the completion report always does.
C6_SentinelDistinct ==
    (InSend /\ CeilChunks(len_bytes) <= 255) =>
        /\ \A j \in DOMAIN writes :
             /\ (writes[j].kind = "chunk" => writes[j].idx # 255)
             /\ (writes[j].kind = "completion" => writes[j].idx = 255)
        /\ (writes # <<>> => command[4] = writes[Len(writes)].idx)

\* the last chunk of a 255-chunk bitmap and the completion report are out
C6_Witness ==
    /\ InSend
    /\ CeilChunks(len_bytes) = 255
    /\ Len(writes) = 256
    /\ writes[255].kind = "chunk" /\ writes[255].idx = 254
    /\ writes[256].kind = "completion"

\* C7: a successful transfer of L >= 1 bytes wrote exactly ceil(L/28) data
\* chunks, each but the last with 28 payload bytes and the last with
\* L - 28*(N-1) bytes, between 1 and 28; 512 bytes make 19 data chunks (the
\* last of 8 bytes) and 20 writes in all.
C7_ChunkCount ==
    (SendDone /\ result.kind = "Success" /\ len_bytes >= 1) =>
        LET N == Cardinality(ChunkWrites)
            L == len_bytes IN
        /\ N >= 1
        /\ 28 * (N - 1) < L /\ L <= 28 * N
        /\ ChunkWrites = 1..N
        /\ Len(writes) = N + 1
        /\ \A j \in 1..(N - 1) : writes[j].len = 28
        /\ writes[N].len = L - 28 * (N - 1)
        /\ writes[N].len >= 1 /\ writes[N].len <= 28
        /\ (L = 512 => N = 19 /\ writes[19].len = 8 /\ Len(writes) = 20)

C7_Witness ==
    /\ SendDone
    /\ result.kind = "Success"
    /\ len_bytes = 512
    /\ Len(writes) = 20
    /\ writes[19].len = 8

\* C8: a transfer of an empty bitmap writes no data-chunk report and
\* exactly one completion report, and succeeds exactly when that report
\* was written and answered.
C8_EmptyBitmap ==
    (InSend /\ len_bytes = 0) =>
        /\ ChunkWrites = {}
        /\ pc \in {"wcomp", "rcomp", "done"}
        /\ (pc = "wcomp" => writes = <<>>)
        /\ (pc # "wcomp" => Len(writes) = 1 /\ writes[1].kind = "completion")
        /\ (pc = "done" =>
              (result.kind = "Success" <=>
                  /\ writes[1].ok
                  /\ Len(acks) = 1
                  /\ acks[1].kind = "completion" /\ acks[1].got))

C8_Witness ==
    /\ SendDone
    /\ len_bytes = 0
    /\ result.kind = "Success"
    /\ Len(writes) = 1

(* ==================== properties of the handles ======================== *)
\* C9: a connect_hid call (whose enumeration returned) in which no
\* candidate answered ends with NotFound and with no handle held.
C9_NotFound ==
    (ConnectDone /\ result.kind \notin {"Connected", "ConnectionFailed"}) =>
        /\ result.kind = "NotFound"
        /\ device = None

Open(h) == closes[h] = 0

\* C10: every handle opened is closed exactly once: none is closed twice,
\* an open handle is always the one held as self.device (none is replaced
\* without being closed), and none is open after cleanup.
C10_ClosedOnce ==
    \A h \in DOMAIN closes :
        /\ closes[h] <= 1
        /\ (Open(h) => h = device)
        /\ (pc = "exited" => ~Open(h))

(* ================== properties of failures and content ================= *)
\* C11: when a device write fails during a transfer, the transfer ends
\* with the I/O-failure outcome, that write is the last one, and the handle
\* is closed and discarded: no connected device is held afterwards.
C11_WriteFailureClosesHandle ==
    (SendDone /\ OkWrites # DOMAIN writes) =>
        /\ result.kind = "SendFailed"
        /\ ~writes[Len(writes)].ok
        /\ OkWrites = 1..(Len(writes) - 1)
        /\ device = None
        /\ \A h \in DOMAIN closes : ~Open(h)

\* C12: get_protocol_version returns a version exactly when its write
\* succeeded and a response of at least 3 bytes was read, and the version
\* is then byte 2 of that response, 0 included; a failed write, a timeout
\* and a response shorter than 3 bytes give None, and connect_hid goes on
\* without an exception.  Discovery keeps a candidate exactly when a
\* version was returned.
C12_Version ==
    InConnect =>
        \A j \in DOMAIN probes :
            (j < Len(probes) \/ pc \in {"done", "open"}) =>
                LET p == probes[j] IN
                /\ (p.version # NoVersion) <=>
                       (p.handle # None /\ p.wrote /\ p.rlen >= 3)
                /\ (p.version # NoVersion => p.version = p.rb2)
                /\ (p.version # NoVersion =>
                       j = Len(probes) /\ pc = "done"
                       /\ result = Res("connect", "Connected", p.rb2))
                /\ (p.version = NoVersion /\ j = Len(probes) /\ pc = "done"
                       => result.kind # "Connected")

\* a keyboard answering with version byte 0 is connected
C12_Witness ==
    /\ ConnectDone
    /\ result = Res("connect", "Connected", 0)
    /\ Len(probes) = 2
    /\ probes[1].wrote /\ probes[1].rlen = 2
    /\ probes[2].rlen >= 3 /\ probes[2].rb2 = 0

(* ===================== properties of the packer ======================== *)
\* bit k (0 = least significant) of a byte
BitOf(byte, k) == (byte \div Pow2(k)) % 2

\* reading the bytes back most significant bit first, P bits of them
Unpack(bytes, P) ==
    [k \in 1..P |-> BitOf(bytes[((k - 1) \div 8) + 1], 7 - ((k - 1) % 8))]

\* the pixels as 1-bit values
OneBit(px) == [k \in DOMAIN px |-> IF px[k] > 0 THEN 1 ELSE 0]

\* C13: for a buffer of P pixels the packer gives ceil(P/8) bytes, pixel
\* 8j+b is bit 7-b of byte j, the bits past the last pixel are 0, and
\* unpacking most significant bit first and keeping P bits gives the
\* pixels back.
C13_PackRoundTrip ==
    pc = "packed" =>
        LET P == Len(pixels) IN
        /\ Len(bytes_data) = (P + 7) \div 8
        /\ \A j \in DOMAIN bytes_data :
             bytes_data[j] >= 0 /\ bytes_data[j] <= 255
        /\ \A j \in DOMAIN bytes_data : \A b \in 0..7 :
             BitOf(bytes_data[j], 7 - b) =
                 IF 8 * (j - 1) + b < P
                 THEN (IF pixels[8 * (j - 1) + b + 1] > 0 THEN 1 ELSE 0)
                 ELSE 0
        /\ Unpack(bytes_data, P) = OneBit(pixels)

\* ten pixels, the first and the last set: bytes 0x80 and 0x40
C13_Witness ==
    /\ pc = "packed"
    /\ Len(pixels) = 10
    /\ pixels[1] > 0 /\ pixels[10] > 0
    /\ \A k \in 2..9 : pixels[k] = 0
    /\ bytes_data = <<128, 64>>

(* --------------------------------- C14 --------------------------------- *)
\* an acknowledgment wait that took a response off the input queue
AckConsumed ==
    /\ pc \in {"read", "rcomp"}
    /\ inbuf # <<>>
    /\ inbuf' = Tail(inbuf)

\* C14: the outcome of a transfer and the reports it writes depend only on
\* whether a non-empty response arrives for each write, never on its
\* content: whatever the response taken by an acknowledgment wait holds,
\* the wait for chunk i goes on to chunk i + 1 (or to the completion report
\* after the last chunk) without touching the reports written, the wait
\* for the completion ends in success, and any other response in its place
\* would have led to the same step.
C14_ContentIgnored ==
    [][AckConsumed =>
         /\ writes' = writes
         /\ <<len_bytes', oled_side'>> = <<len_bytes, oled_side>>
         /\ pc = "read" =>
              /\ chunk_index' = chunk_index + 1
              /\ pc' = IF chunk_index + 1 < CeilChunks(len_bytes)
                       THEN "write" ELSE "wcomp"
              /\ \A q \in Responses :
                   AckOutcome(q, chunk_index, len_bytes) =
                     [pc |-> pc', result |-> result',
                      chunk_index |-> chunk_index']
         /\ pc = "rcomp" =>
              /\ pc' = "done"
              /\ result'.kind = "Success"
              /\ \A q \in Responses : CompletionOutcome(q) = result'
      ]_vars

\* a second chunk's wait is about to take a two-byte response, after the
\* first chunk was acknowledged
C14_Witness ==
    /\ pc = "read"
    /\ Len(acks) = 1
    /\ inbuf # <<>>
    /\ Head(inbuf).len < MinVersionLen

(* --------------------------------- C15 --------------------------------- *)
\* handles of the candidates of the running discovery that are still open
OpenProbes ==
    {j \in DOMAIN probes :
        probes[j].handle # None /\ Open(probes[j].handle)}

\* C15: during discovery a candidate that fails to open does not abort the
\* discovery, and a candidate whose handshake fails has its handle closed
\* before the next candidate is opened: at most one candidate handle is
\* open at any moment, it is the one of the candidate tried last, none is
\* open when the next candidate is about to be opened, and discovery ends
\* before the last candidate only by connecting.
C15_DiscoveryContinues ==
    InConnect =>
        /\ Cardinality(OpenProbes) <= 1
        /\ \A j \in OpenProbes : j = Len(probes)
        /\ pc = "open" =>
             /\ OpenProbes = {}
             /\ Len(probes) = cand - 1
             /\ \A j \in DOMAIN probes :
                  probes[j].handle # None => closes[probes[j].handle] = 1
        /\ \A j \in DOMAIN probes :
             (probes[j].handle = None /\ j < ndevices) =>
                 \/ Len(probes) > j
                 \/ pc = "open" /\ cand = j + 1
        /\ (ConnectDone /\ result.kind \notin {"Connected", "ConnectionFailed"})
               => Len(probes) = ndevices
        /\ (ConnectDone /\ result.kind = "Connected") =>
               /\ OpenProbes = {Len(probes)}
               /\ probes[Len(probes)].version # NoVersion

\* the first candidate failed to open, the second failed the handshake and
\* was closed, the third answered and is the connected device
C15_Witness ==
    /\ ConnectDone
    /\ result.kind = "Connected"
    /\ Len(probes) = 3
    /\ probes[1].handle = None
    /\ probes[2].handle # None
    /\ closes[probes[2].handle] = 1
    /\ probes[3].answered
    /\ device = probes[3].handle

(* --------------------------------- C16 --------------------------------- *)
\* C16: every report written by a transfer is exactly 32 bytes; data-chunk
\* report i is [0x00, 0x40, panel_code, i], then bitmap bytes
\* [28*i, min(28*(i+1), L)), then zeros; the completion report is
\* [0x00, 0x40, panel_code, 0xFF] and 28 zeros; panel_code is 0x01 for the
\* left panel and 0x02 for the right one, the same in every report of the
\* transfer; the payloads, taken in index order, cover the bitmap
\* contiguously from byte 0 and the completion report comes only when all
\* L bytes are covered.
C16_ReportLayout ==
    (InSend /\ writes # <<>>) =>
        LET j == Len(writes)
            L == len_bytes
            code == IF oled_side = "left" THEN 1 ELSE 2
        IN  /\ Len(command) = 32
            /\ \A k \in 1..32 : command[k] \in 0..255
            /\ command[1] = 0 /\ command[2] = 64 /\ command[3] = code
            /\ \A m \in DOMAIN writes : writes[m].panel = code
            /\ writes[j].kind = "chunk" =>
                 LET lo == 28 * (j - 1)
                     hi == Min(28 * j, L)
                 IN  /\ command[4] = j - 1
                     /\ lo < hi
                     /\ \A k \in 1..28 :
                          command[4 + k] =
                              IF lo + k - 1 < hi THEN ByteAt(lo + k - 1) ELSE 0
            /\ writes[j].kind = "completion" =>
                 /\ command[4] = 255
                 /\ \A k \in 5..32 : command[k] = 0
            /\ \A m \in DOMAIN writes :
                 /\ writes[m].kind = "chunk" =>
                      /\ writes[m].idx = m - 1
                      /\ 28 * (m - 1) + writes[m].len = Min(28 * m, L)
                 /\ writes[m].kind = "completion" =>
                      /\ m = j
                      /\ 28 * (m - 2) < L /\ L <= 28 * (m - 1)
                      /\ \A q \in 1..(m - 1) : writes[q].kind = "chunk"

\* the third report of a 57-byte bitmap for the right panel: one bitmap
\* byte, number 56, and 27 bytes of padding
C16_Witness ==
    /\ pc = "read"
    /\ len_bytes = 57
    /\ oled_side = "right"
    /\ Len(writes) = 3
    /\ command[3] = 2 /\ command[4] = 2
    /\ command[5] = ByteAt(56)
    /\ command[6] = 0

(* --------------------------------- C17 --------------------------------- *)
\* the state of the transfer session, read off the position of send_to_oled
SessionOf(p, i, res) ==
    IF p = "idle" THEN <<"Idle", 0>>
    ELSE IF p \in {"write", "read"} THEN <<"Sending", i>>
    ELSE IF p \in {"wcomp", "rcomp"} THEN <<"Completing", 0>>
    ELSE IF p = "done" /\ res.op = "send"
         THEN (IF res.kind = "Success" THEN <<"Done", 0>> ELSE <<"Failed", 0>>)
    ELSE <<"Other", 0>>

Session == SessionOf(pc, chunk_index, result)

\* the forward moves Idle -> Sending(0) -> ... -> Sending(N-1) -> Completing
\* -> Done of a step from session state s to t, N chunks, and the moves
\* that leave or do not concern a transfer
ForwardMove(s, t, N) ==
    \/ s = t
    \/ s[1] = "Idle" /\ t = <<"Sending", 0>> /\ N >= 1
    \/ s[1] = "Idle" /\ t[1] = "Completing" /\ N = 0
    \/ s[1] = "Sending" /\ t = <<"Sending", s[2] + 1>> /\ s[2] + 1 < N
    \/ s[1] = "Sending" /\ t[1] = "Completing" /\ s[2] = N - 1
    \/ s[1] = "Completing" /\ t[1] = "Done"
    \/ s[1] \in {"Done", "Failed", "Other"} /\ t[1] = "Idle"
    \/ s[1] = "Idle" /\ t[1] = "Other"

\* C17 as stated: the session moves only along Idle -> Sending(0) -> ... ->
\* Sending(N-1) -> Completing -> Done, the chunk index increasing by
\* exactly one at each step, and Failed is entered only from Idle or from
\* a Sending(i) state.
C17_FailedFromIdleOrSending ==
    [][LET s == Session
           t == SessionOf(pc', chunk_index', result')
       IN  \/ ForwardMove(s, t, CeilChunks(len_bytes'))
           \/ t[1] = "Failed" /\ s[1] \in {"Idle", "Sending"}
      ]_vars

\* C17, amended: the session moves only along Idle -> Sending(0) -> ... ->
\* Sending(N-1) -> Completing -> Done, the chunk index increasing by
\* exactly one at each step, and Failed is entered only from Idle, from a
\* Sending(i) state or from Completing (the completion report could not be
\* written or was not acknowledged).
C17_SessionMoves ==
    [][LET s == Session
           t == SessionOf(pc', chunk_index', result')
       IN  \/ ForwardMove(s, t, CeilChunks(len_bytes'))
           \/ t[1] = "Failed" /\ s[1] \in {"Idle", "Sending", "Completing"}
      ]_vars

\* a transfer of three chunks, all acknowledged, has failed in Completing
C17_Witness ==
    /\ Session[1] = "Failed"
    /\ result.kind = "CompletionNotAcknowledged"
    /\ len_bytes = 57
    /\ chunk_index = 3
    /\ Len(acks) = 3

(* --------------------------------- C18 --------------------------------- *)
Transferring == pc \in {"write", "read", "wcomp", "rcomp"}

\* C18: every transfer terminates in Done or Failed whatever the device
\* does (responds, stays silent, fails reads or writes), provided each
\* read_with_timeout ends when its timeout has elapsed: the session writes
\* at most N + 1 reports, waits for at most N + 1 acknowledgments (one
\* wait per report written with success, none without a write before it)
\* and never waits for ever: it always reaches the end of send_to_oled.
C18_Terminates ==
    /\ [](InSend =>
            /\ Len(writes) <= CeilChunks(len_bytes) + 1
            /\ Cardinality(OkWrites) <= CeilChunks(len_bytes) + 1
            /\ Len(acks) <= Cardinality(OkWrites)
            /\ Cardinality(OkWrites) <= Len(acks) + 1
            /\ pc \in {"read", "rcomp"} =>
                 Cardinality(OkWrites) = Len(acks) + 1)
    /\ (Transferring ~> SendDone)

\* a transfer of 255 chunks has ended, one way or the other, after its
\* 256 writes
C18_Witness ==
    /\ SendDone
    /\ CeilChunks(len_bytes) = 255
    /\ Len(writes) = 256
    /\ Len(acks) >= 255

(* --------------------------------- C19 --------------------------------- *)
\* C19: every response that a transfer accepts as the acknowledgment of
\* chunk i, or of the completion report, was emitted by the device in reply
\* to that very report: a late reply to an earlier request on the same
\* handle is never counted as the acknowledgment of a later report.
C19_AcksAreReplies ==
    InSend => \A j \in DOMAIN acks : acks[j].fresh

(* --------------------------------- C20 --------------------------------- *)
\* C20: read_with_timeout never raises: a device read that throws on every
\* poll gives None, the result of a silent device, so a transfer whose
\* acknowledgment wait met such a read ends as 'chunk not acknowledged'
\* (or 'completion not acknowledged'), never as an I/O failure; an I/O
\* failure arises only at a write statement, with every report written so
\* far acknowledged.
C20_ReadErrorsSwallowed ==
    /\ ReadOutcome(inbuf, TRUE).response = ReadOutcome(<<>>, FALSE).response
    /\ ~ReadOutcome(inbuf, TRUE).raised
    /\ SendDone =>
         /\ read_error =>
              \/ result = Res("send", "ChunkNotAcknowledged", Len(acks))
              \/ /\ result = Res("send", "CompletionNotAcknowledged", NoIndex)
                 /\ Len(acks) = CeilChunks(len_bytes)
         /\ result.kind = "SendFailed" =>
              /\ ~read_error
              /\ Len(acks) = Cardinality(OkWrites)

\* the second chunk's wait met failing reads although a response was queued
C20_Witness ==
    /\ SendDone
    /\ read_error
    /\ inbuf # <<>>
    /\ result = Res("send", "ChunkNotAcknowledged", 1)

====
